---- MODULE Spec2Model ----
(***************************************************************************)
(* Model of the frontpage generator (src/main.py): the catalog tables      *)
(* (streams, semesters, subjects, subject_offerings), the generation       *)
(* ledger (generation_logs) and the request handlers that touch them.      *)
(*                                                                         *)
(* The store is the default one, sqlite:///frontpage.db (main.py:30):      *)
(* UNIQUE constraints are enforced with exact (binary) comparison, the     *)
(* declared FOREIGN KEYs are not enforced (no PRAGMA foreign_keys is       *)
(* issued), and an INTEGER PRIMARY KEY gets max(id)+1 on insert.           *)
(* Text is modelled as a sequence of one-character strings so that         *)
(* strip(), lower(), upper() and replace() are computed, not assumed.      *)
(***************************************************************************)
EXTENDS Integers, Sequences, FiniteSets, TLC

\* ------------------------------------------------------------------ bounds
\* number of seeded semesters (the source seeds range(1, 9))
MaxSemester == 2
\* largest primary key handed out in subjects / subject_offerings
MaxSubjectId == 2
MaxOfferingId == 2
\* largest number of generation_logs rows
MaxLogs == 2
\* largest primary key handed out in streams (the defaults take 1..4)
MaxStreamId == 5

\* ------------------------------------------------------------------- text
LowerLetters ==
  <<"a","b","c","d","e","f","g","h","i","j","k","l","m",
    "n","o","p","q","r","s","t","u","v","w","x","y","z">>

UpperLetters ==
  <<"A","B","C","D","E","F","G","H","I","J","K","L","M",
    "N","O","P","Q","R","S","T","U","V","W","X","Y","Z">>

\* the lower-case letter of every upper-case letter, and the converse
LowerOf == [c \in { UpperLetters[i] : i \in 1..26 } |->
              LowerLetters[CHOOSE i \in 1..26 : UpperLetters[i] = c]]

UpperOf == [c \in { LowerLetters[i] : i \in 1..26 } |->
              UpperLetters[CHOOSE i \in 1..26 : LowerLetters[i] = c]]

LowerChar(c) == IF c \in DOMAIN LowerOf THEN LowerOf[c] ELSE c

UpperChar(c) == IF c \in DOMAIN UpperOf THEN UpperOf[c] ELSE c

\* str.lower() / db.func.lower()
Lower(s) == [i \in 1..Len(s) |-> LowerChar(s[i])]

\* str.upper()
Upper(s) == [i \in 1..Len(s) |-> UpperChar(s[i])]

\* str.replace(a, b) for one-character a, b
Replace(s, a, b) == [i \in 1..Len(s) |-> IF s[i] = a THEN b ELSE s[i]]

RECURSIVE LStrip(_)
LStrip(s) == IF s # <<>> /\ Head(s) = " " THEN LStrip(Tail(s)) ELSE s

RECURSIVE RStrip(_)
RStrip(s) ==
  IF s # <<>> /\ s[Len(s)] = " " THEN RStrip(SubSeq(s, 1, Len(s) - 1)) ELSE s

\* str.strip()
Strip(s) == RStrip(LStrip(s))

\* the sentinel subject code "N/A"
NA == <<"N","/","A">>

\* ordinal_text(value): the number and its suffix
ordinal_text(value) ==
  LET suffix == IF (value % 100) \in {11, 12, 13} THEN "th"
                ELSE CASE value % 10 = 1 -> "st"
                       [] value % 10 = 2 -> "nd"
                       [] value % 10 = 3 -> "rd"
                       [] OTHER -> "th"
  IN <<value, suffix>>

\* ------------------------------------------------------------------ state
VARIABLES
  semesters,   \* table semesters: rows [id, label, order_index]
  streams,     \* table streams: rows [id, name, short_code]
  subjects,    \* table subjects: rows [id, name, code]
  offerings,   \* table subject_offerings: rows [id, subject_id, semester_id]
  logs,        \* table generation_logs
  last,        \* the request handled last: method, status, description, name
  pending      \* per client, the POST request it is in the middle of

vars == <<semesters, streams, subjects, offerings, logs, last, pending>>

catalog == <<semesters, streams, subjects, offerings>>

\* Python None
None == [kind |-> "none"]

IntVal(n) == [kind |-> "int", val |-> n]

\* a JSON value that int() rejects
NotAnInt == [kind |-> "str"]

\* Python truthiness of an optional integer
Truthy(v) == v.kind = "int" /\ v.val # 0

\* INTEGER PRIMARY KEY without AUTOINCREMENT
NextId(rows) ==
  IF rows = {} THEN 1
  ELSE (CHOOSE m \in {r.id : r \in rows} : \A r \in rows : r.id <= m) + 1

DefaultStreams ==
  { [id |-> 1, label |-> <<"C","S","E">>],
    [id |-> 2, label |-> <<"I","T">>],
    [id |-> 3, label |-> <<"E","C","E">>],
    [id |-> 4, label |-> <<"C","S","E"," ","A","I","M","L">>] }

\* short code derived from a stream label
ShortCodeOf(label) == Replace(Upper(label), " ", "_")

NoRequest == [method |-> "NONE", status |-> 0, detail |-> "", name |-> <<>>]

\* the clients that may have a request in flight at the same time
Clients == {1, 2}

Idle == [pc |-> "idle"]

\* init_db() on an empty database with no admin_config.json
Init ==
  /\ semesters = { [id |-> idx, label |-> ordinal_text(idx), order_index |-> idx]
                     : idx \in 1..MaxSemester }
  /\ streams = { [id |-> d.id, name |-> d.label, short_code |-> ShortCodeOf(d.label)]
                   : d \in DefaultStreams }
  /\ subjects = {}
  /\ offerings = {}
  /\ logs = {}
  /\ last = NoRequest
  /\ pending = [c \in Clients |-> Idle]

\* ---------------------------------------------------------------- queries
\* a lookup that compares the names as they are written
SubjectsNamedExact(subs, name) == { s \in subs : s.name = name }

\* Subject.query.filter(lower(Subject.name) == name.lower())
SubjectsNamed(subs, name) == { s \in subs : Lower(s.name) = Lower(name) }

\* SubjectOffering.query.filter_by(subject_id=..., semester_id=...)
OfferingsFor(offs, sid, semid) ==
  { o \in offs : o.subject_id = sid /\ o.semester_id = semid }

\* the UNIQUE on subjects.name alone, as if uq_subject_semester were missing
UniqueNamesOnly(subs, offs) == \A a, b \in subs : a.name = b.name => a = b

\* uq_subject_semester and the UNIQUE on subjects.name (exact comparison)
UniqueOk(subs, offs) ==
  /\ \A a, b \in subs : a.name = b.name => a = b
  /\ \A a, b \in offs :
       (a.subject_id = b.subject_id /\ a.semester_id = b.semester_id) => a = b

\* ---------------------------------------------------------- request input
\* JSON payloads of /admin/subjects: well-formed field values ...
GoodNames == { <<"d">>, <<"D">>, <<"o">> }

GoodCodes == { <<" ">>, <<"C"," ">> }

GoodSemesterIds == { IntVal(n) : n \in 1..(MaxSemester + 1) }

GoodOfferingIds == { IntVal(n) : n \in 1..MaxOfferingId }

\* ... and payloads with one field blank, padded, missing or not a number
BasePayload ==
  [name |-> <<"d">>, code |-> <<>>, semester_id |-> IntVal(1), offering_id |-> IntVal(1)]

OddPayloads ==
  { [BasePayload EXCEPT !.name = <<" ">>],
    [BasePayload EXCEPT !.name = <<" ","d"," ">>],
    [BasePayload EXCEPT !.semester_id = None],
    [BasePayload EXCEPT !.semester_id = NotAnInt],
    [BasePayload EXCEPT !.semester_id = IntVal(0)],
    [BasePayload EXCEPT !.offering_id = None] }

PostPayloads ==
  [name : GoodNames, code : GoodCodes, semester_id : GoodSemesterIds,
   offering_id : {None}] \cup OddPayloads

PutPayloads ==
  [name : GoodNames, code : GoodCodes, semester_id : GoodSemesterIds,
   offering_id : GoodOfferingIds] \cup OddPayloads

DeletePayloads ==
  [name : {<<>>}, code : {<<>>}, semester_id : {None},
   offering_id : GoodOfferingIds] \cup OddPayloads

\* (payload.get("code") or "N/A").strip() or "N/A"
CodeOf(raw) ==
  LET c == Strip(IF raw = <<>> THEN NA ELSE raw)
  IN IF c = <<>> THEN NA ELSE c

\* --------------------------------------------------------------- responses
\* What a handler leaves behind: the HTTP status, the description of the
\* error (or the message of the reply), the subject name it looked up (<<>>
\* when the request ended before the lookup), the offering_id of the POST
\* reply (0 when there is none), and the rows of the tables it writes.
Result(status, detail, name, ret, subs, offs, lg) ==
  [status |-> status, detail |-> detail, name |-> name, ret |-> ret,
   subjects |-> subs, offerings |-> offs, logs |-> lg]

\* abort(...), or an exception that rolls the session back
Refused(status, detail, name) ==
  Result(status, detail, name, 0, subjects, offerings, logs)

\* the integer behind an optional request field, 0 when it is absent
ValOf(v) == IF v.kind = "int" THEN v.val ELSE 0

\* required-field checks that let a blank subject name through
RejectedNameUnchecked(method, rawName, rawSem) ==
  IF rawSem.kind = "str" THEN "semester_id must be an integer"
  ELSE IF method \in {"POST", "PUT"} /\ ~Truthy(rawSem)
       THEN "semester_id is required"
  ELSE ""

\* admin_subjects, request parsing and the required-field checks: the
\* description the request is aborted with (status 400), "" when it goes on
Rejected(method, rawName, rawSem) ==
  IF rawSem.kind = "str" THEN "semester_id must be an integer"
  ELSE IF method \in {"POST", "PUT"} /\ Strip(rawName) = <<>>
       THEN "Subject name is required"
  ELSE IF method \in {"POST", "PUT"} /\ ~Truthy(rawSem)
       THEN "semester_id is required"
  ELSE ""

\* .first(): a row of the result, None when it is empty
First(rows) == IF rows = {} THEN {None} ELSE rows

\* the ids handed out stay within the model's bounds
WithinIds(r) ==
  /\ \A s \in r.subjects : s.id <= MaxSubjectId
  /\ \A o \in r.offerings : o.id <= MaxOfferingId
  /\ Cardinality(r.logs) <= MaxLogs

\* the handler's writes are committed and its response is sent
Respond(method, r) ==
  /\ WithinIds(r)
  /\ subjects' = r.subjects
  /\ offerings' = r.offerings
  /\ logs' = r.logs
  /\ last' = [method |-> method, status |-> r.status, detail |-> r.detail,
              name |-> r.name]
  /\ UNCHANGED <<semesters, streams>>

\* ------------------------------------------------------- admin_subjects POST
\* an upsert that also overwrites the stored name with the one supplied
UpsertSubjectRenaming(subs, found, name, code) ==
  IF found # None
  THEN [ok |-> TRUE,
        subs |-> { IF s.id = found.id THEN [s EXCEPT !.name = name, !.code = code]
                   ELSE s : s \in subs },
        sid |-> found.id]
  ELSE [ok |-> TRUE,
        subs |-> subs \cup {[id |-> NextId(subs), name |-> name, code |-> code]},
        sid |-> NextId(subs)]

\* POST, the subject half: update the code of the subject found by the
\* lookup, or insert a new subject and flush
UpsertSubject(subs, found, name, code) ==
  IF found # None
  THEN IF found.code = code
       THEN [ok |-> TRUE, subs |-> subs, sid |-> found.id]
       ELSE IF \E s \in subs : s.id = found.id
            THEN [ok |-> TRUE,
                  subs |-> { IF s.id = found.id THEN [s EXCEPT !.code = code] ELSE s
                               : s \in subs },
                  sid |-> found.id]
            ELSE [ok |-> FALSE, subs |-> subs, sid |-> found.id]
  ELSE LET new == [id |-> NextId(subs), name |-> name, code |-> code]
       IN IF \E s \in subs : s.name = name
          THEN [ok |-> FALSE, subs |-> subs, sid |-> new.id]
          ELSE [ok |-> TRUE, subs |-> subs \cup {new}, sid |-> new.id]

\* an offering half that inserts without looking the pair up
EnsureOfferingAlways(offs, sid, semid) ==
  [offs |-> offs \cup {[id |-> NextId(offs), subject_id |-> sid,
                         semester_id |-> semid]},
   oid |-> NextId(offs)]

\* POST, the offering half: the offering of (subject, semester), inserted
\* when the lookup finds none
EnsureOffering(offs, sid, semid) ==
  LET ex == OfferingsFor(offs, sid, semid)
  IN IF ex # {}
     THEN [offs |-> offs, oid |-> (CHOOSE o \in ex : TRUE).id]
     ELSE [offs |-> offs \cup {[id |-> NextId(offs), subject_id |-> sid,
                                 semester_id |-> semid]},
           oid |-> NextId(offs)]

\* POST with payload p on the tables subs, offs, lg, `found` being what the
\* subject lookup returned there
PostOn(subs, offs, lg, p, found) ==
  LET name == Strip(p.name)
      code == CodeOf(p.code)
      why == Rejected("POST", p.name, p.semester_id)
  IN IF why # "" THEN Result(400, why, <<>>, 0, subs, offs, lg)
     ELSE LET u == UpsertSubject(subs, found, name, code)
              e == EnsureOffering(offs, u.sid, p.semester_id.val)
          IN IF u.ok /\ UniqueOk(u.subs, e.offs)
             THEN Result(201, "Subject saved", name, e.oid, u.subs, e.offs, lg)
             ELSE Result(500, "IntegrityError", name, 0, subs, offs, lg)

\* POST with payload p on the tables as they are
PostResult(p, found) == PostOn(subjects, offerings, logs, p, found)

AdminSubjectsPost(p) ==
  /\ \E found \in First(SubjectsNamed(subjects, Strip(p.name))) :
       Respond("POST", PostResult(p, found))
  /\ UNCHANGED pending

\* -------------------------------------------------------- admin_subjects PUT
\* a conflict check that compares the names as they are written
NameTakenExact(subs, name, sid) == \E s \in subs : s.name = name /\ s.id # sid

\* PUT: another subject already carries the new name (case-insensitive)
NameTaken(subs, name, sid) ==
  \E s \in subs : Lower(s.name) = Lower(name) /\ s.id # sid

\* PUT: rename the offering's subject, set its code
RenameSubject(subs, sid, name, code) ==
  { IF s.id = sid THEN [s EXCEPT !.name = name, !.code = code] ELSE s : s \in subs }

\* a move that also drops the subject's other offerings
MoveOfferingDropOthers(offs, oid, semid) ==
  LET off == CHOOSE o \in offs : o.id = oid
  IN { [o EXCEPT !.semester_id = semid] : o \in {off} }
       \cup { o \in offs : o.subject_id # off.subject_id }

\* PUT: offering.semester_id = semester_id
MoveOffering(offs, oid, semid) ==
  { IF o.id = oid THEN [o EXCEPT !.semester_id = semid] ELSE o : o \in offs }

\* PUT with payload p
PutResult(p) ==
  LET name == Strip(p.name)
      code == CodeOf(p.code)
      sem == ValOf(p.semester_id)
      oid == ValOf(p.offering_id)
      hit == { o \in offerings : o.id = oid }
      why == Rejected("PUT", p.name, p.semester_id)
  IN IF why # "" THEN Refused(400, why, <<>>)
     ELSE IF ~Truthy(p.offering_id) THEN Refused(400, "offering_id is required", <<>>)
     ELSE IF hit = {} THEN Refused(404, "Not Found", <<>>)
     ELSE LET off == CHOOSE o \in hit : TRUE
              subs2 == RenameSubject(subjects, off.subject_id, name, code)
              offs2 == MoveOffering(offerings, oid, sem)
          IN IF ~\E s \in subjects : s.id = off.subject_id
             THEN Refused(500, "AttributeError", <<>>)
             ELSE IF NameTaken(subjects, name, off.subject_id)
             THEN Refused(400, "Another subject with that name exists", name)
             ELSE IF ~UniqueOk(subs2, offs2)
             THEN Refused(500, "IntegrityError", name)
             ELSE Result(200, "Subject updated", name, 0, subs2, offs2, logs)

AdminSubjectsPut(p) == Respond("PUT", PutResult(p)) /\ UNCHANGED pending

\* ----------------------------------------------------- admin_subjects DELETE
\* a delete that takes the subject's records with it, as a delete cascade
\* on Subject.logs would
DropSubjectLogs(lg, sid) == { l \in lg : l.subject_id # IntVal(sid) }

\* the subject's logs lose their back-reference when the subject row goes
\* (Subject.logs has no delete cascade: the ORM nulls generation_logs.subject_id)
ForgetSubject(lg, sid) ==
  { IF l.subject_id = IntVal(sid) THEN [l EXCEPT !.subject_id = None] ELSE l : l \in lg }

\* a check that still sees the offering being deleted (no flush before it)
NeverOrphaned(offs, off) == FALSE

\* DELETE: after the flush the subject has no offerings left
OrphanedBy(offs, off) ==
  ~\E o \in offs : o.id # off.id /\ o.subject_id = off.subject_id

\* DELETE with payload p
DeleteResult(p) ==
  LET oid == ValOf(p.offering_id)
      hit == { o \in offerings : o.id = oid }
      why == Rejected("DELETE", p.name, p.semester_id)
  IN IF why # "" THEN Refused(400, why, <<>>)
     ELSE IF ~Truthy(p.offering_id) THEN Refused(400, "offering_id is required", <<>>)
     ELSE IF hit = {} THEN Refused(404, "Not Found", <<>>)
     ELSE LET off == CHOOSE o \in hit : TRUE
          IN IF OrphanedBy(offerings, off)
             THEN Result(200, "Subject removed", <<>>, 0,
                         { s \in subjects : s.id # off.subject_id },
                         offerings \ {off},
                         ForgetSubject(logs, off.subject_id))
             ELSE Result(200, "Subject removed", <<>>, 0,
                         subjects, offerings \ {off}, logs)

AdminSubjectsDelete(p) ==
  Respond("DELETE", DeleteResult(p)) /\ UNCHANGED pending

\* ------------------------------------------------------- generate_frontpage
\* the submitted form: text fields, ids as submitted, the as_pdf checkbox
GenerateForms ==
  [name : { <<" ","A","b"," ">> }, roll : { <<"7">> }, reg : { <<"R">> },
   semester_id : { IntVal(1), IntVal(MaxSemester + 1), NotAnInt },
   stream_id : { IntVal(0), IntVal(1) },
   subject_id : { IntVal(1), IntVal(2) },
   as_pdf : BOOLEAN]

\* what the request finds outside the database: whether the template and
\* the font can be loaded, whether the ledger commit goes through
Environments == [assets : BOOLEAN, ledger : BOOLEAN]

\* Stream.query.get(stream_id)
StreamById(id) == First({ s \in streams : s.id = id })

\* a selection that picks the offering by its semester alone
SelectedBySemester(semid, subid) ==
  First({ o \in offerings : o.semester_id = semid })

\* the offering the form selects: filter_by(semester_id, subject_id).first()
SelectedOffering(semid, subid) == First(OfferingsFor(offerings, subid, semid))

\* offering.subject / offering.semester: the row the foreign key points at
RowById(rows, id) == First({ r \in rows : r.id = id })

\* the seven lines with the subject's name drawn above its code
DrawnLinesSwapped(name, roll, reg, stream, semester, subject) ==
  <<name, roll, reg, stream.name, semester.label, subject.name, subject.code>>

\* the seven lines drawn on the template, top to bottom
DrawnLines(name, roll, reg, stream, semester, subject) ==
  <<name, roll, reg, stream.name, semester.label, subject.code, subject.name>>

\* the entry handed to log_frontpage_event; the clock is taken to advance
\* between two appends
LogEntry(lg, name, roll, reg, stream, semester, subject) ==
  [id |-> NextId(lg), created_at |-> NextId(lg),
   student_name |-> name, roll |-> roll, registration |-> reg,
   subject_name |-> subject.name, subject_code |-> subject.code,
   stream_label |-> stream.name, semester_label |-> semester.label,
   subject_id |-> IntVal(subject.id), stream_id |-> IntVal(stream.id),
   semester_id |-> IntVal(semester.id)]

\* a failed request: no artifact, nothing written
Failed(status, detail) ==
  [status |-> status, detail |-> detail, name |-> <<>>, artifact |-> None,
   subjects |-> subjects, offerings |-> offerings, logs |-> logs]

\* POST /frontpages with form f in environment env
GenerateResult(f, env) ==
  LET name == Strip(f.name)
      roll == Strip(f.roll)
      reg == Strip(f.reg)
  IN IF \E v \in {f.semester_id, f.stream_id, f.subject_id} : v.kind = "str"
     THEN Failed(500, "ValueError")
     ELSE
     LET stream == CHOOSE s \in StreamById(f.stream_id.val) : TRUE
         offering == CHOOSE o \in SelectedOffering(f.semester_id.val,
                                                   f.subject_id.val) : TRUE
     IN IF stream = None THEN Failed(404, "Not Found")
        ELSE IF offering = None
        THEN Failed(400, "Invalid subject selection for semester")
        ELSE
        LET subject == CHOOSE s \in RowById(subjects, offering.subject_id) : TRUE
            semester == CHOOSE m \in RowById(semesters, offering.semester_id) : TRUE
        IN IF ~env.assets THEN Failed(500, "FileNotFoundError")
           ELSE IF semester = None \/ subject = None
           THEN Failed(500, "AttributeError")
           ELSE IF ~env.ledger THEN Failed(500, "OperationalError")
           ELSE [status |-> 200, detail |-> "OK", name |-> <<>>,
                 artifact |->
                   [lines |-> DrawnLines(name, roll, reg, stream, semester, subject),
                    mimetype |-> IF f.as_pdf THEN "application/pdf" ELSE "image/png",
                    download_name |->
                      <<name, Replace(subject.name, " ", "-"), "FrontPageCover",
                        IF f.as_pdf THEN "pdf" ELSE "png">>],
                 subjects |-> subjects, offerings |-> offerings,
                 logs |-> logs \cup
                   {LogEntry(logs, name, roll, reg, stream, semester, subject)}]

GenerateFrontpage(f, env) ==
  Respond("GENERATE", GenerateResult(f, env)) /\ UNCHANGED pending

\* ------------------------------------------------------------ admin_streams
\* JSON payloads of /admin/streams; <<>> stands for a field that is absent
\* or empty
StreamLabels == { <<>>, <<"a"," ","b">>, <<"a","_","b">>, <<"A"," ","b">>, <<" ","i","t">> }

StreamPayloads ==
  [label : StreamLabels, name : { <<>>, <<"z">> },
   short_code : { <<>>, <<"q"," ">> }, id : {None}]

StreamDeletePayloads ==
  [label : {<<>>}, name : {<<>>}, short_code : {<<>>},
   id : { None, IntVal(0) } \cup { IntVal(n) : n \in 1..MaxStreamId }]

\* what a stream request leaves behind: status, description or message, the
\* stream name it parsed, the rows of streams and of generation_logs
StreamResult(status, detail, name, strs, lg) ==
  [status |-> status, detail |-> detail, name |-> name, streams |-> strs, logs |-> lg]

\* uniqueness of streams.name alone, as if short_code were not UNIQUE
StreamNamesUnique(strs) == \A a, b \in strs : a.name = b.name => a = b

\* the UNIQUE on streams.name and the UNIQUE on streams.short_code
StreamsUnique(strs) ==
  /\ \A a, b \in strs : a.name = b.name => a = b
  /\ \A a, b \in strs : a.short_code = b.short_code => a = b

\* POST /admin/streams with payload p
StreamPostResult(p) ==
  LET name == Strip(IF p.label # <<>> THEN p.label ELSE p.name)
      short_code == ShortCodeOf(IF p.short_code # <<>> THEN p.short_code ELSE name)
      stream == [id |-> NextId(streams), name |-> name, short_code |-> short_code]
  IN IF name = <<>> THEN StreamResult(400, "label is required", <<>>, streams, logs)
     ELSE IF ~StreamsUnique(streams \cup {stream})
     THEN StreamResult(500, "IntegrityError", name, streams, logs)
     ELSE StreamResult(201, "Stream created", name, streams \cup {stream}, logs)

\* the stream's logs lose their back-reference when the stream row goes
\* (Stream.logs has no delete cascade: the ORM nulls generation_logs.stream_id)
ForgetStream(lg, id) ==
  { IF l.stream_id = IntVal(id) THEN [l EXCEPT !.stream_id = None] ELSE l : l \in lg }

\* DELETE /admin/streams with payload p
StreamDeleteResult(p) ==
  IF ~Truthy(p.id) THEN StreamResult(400, "id is required", <<>>, streams, logs)
  ELSE IF ~\E s \in streams : s.id = p.id.val
  THEN StreamResult(404, "Not Found", <<>>, streams, logs)
  ELSE StreamResult(200, "Stream removed", <<>>,
                    { s \in streams : s.id # p.id.val }, ForgetStream(logs, p.id.val))

\* the stream handler's writes are committed and its response is sent
RespondStream(method, r) ==
  /\ \A s \in r.streams : s.id <= MaxStreamId
  /\ streams' = r.streams
  /\ logs' = r.logs
  /\ last' = [method |-> method, status |-> r.status, detail |-> r.detail,
              name |-> r.name]
  /\ UNCHANGED <<semesters, subjects, offerings, pending>>

AdminStreamsPost(p) == RespondStream("STREAM_POST", StreamPostResult(p))

AdminStreamsDelete(p) == RespondStream("STREAM_DELETE", StreamDeleteResult(p))

\* ----------------------------------------------- generate_frontpage, in steps
\* One POST /frontpages request, step by step, so that the requests of other
\* clients can come in between: validate (parse the form, resolve the stream
\* and the offering, load its subject and semester), render (load template
\* and font, draw, save), append to the ledger, return the artifact.

\* a request that ends here: its response is sent, the client is free again
GenEnds(c, r) ==
  /\ Respond("GENERATE", r)
  /\ pending' = [pending EXCEPT ![c] = Idle]

\* a request that goes on to its next step
GenGoesOn(c, q) ==
  /\ pending' = [pending EXCEPT ![c] = q]
  /\ UNCHANGED <<catalog, logs, last>>

\* step 1, validate
GenValidate(c, f) ==
  /\ pending[c] = Idle
  /\ IF \E v \in {f.semester_id, f.stream_id, f.subject_id} : v.kind = "str"
     THEN GenEnds(c, Failed(500, "ValueError"))
     ELSE LET stream == CHOOSE s \in StreamById(f.stream_id.val) : TRUE
              offering == CHOOSE o \in SelectedOffering(f.semester_id.val,
                                                        f.subject_id.val) : TRUE
          IN IF stream = None THEN GenEnds(c, Failed(404, "Not Found"))
             ELSE IF offering = None
             THEN GenEnds(c, Failed(400, "Invalid subject selection for semester"))
             ELSE GenGoesOn(c,
                    [pc |-> "validated", f |-> f, stream |-> stream,
                     subject |-> CHOOSE s \in RowById(subjects, offering.subject_id) : TRUE,
                     semester |-> CHOOSE m \in RowById(semesters, offering.semester_id) : TRUE])

\* a render step that goes on although template and font could not be loaded
RenderFailsNever(q, assets) == ""

\* what stops the rendering of request q: "" when the image was drawn
RenderFails(q, assets) ==
  IF ~assets THEN "FileNotFoundError"
  ELSE IF q.semester = None \/ q.subject = None THEN "AttributeError"
  ELSE ""

\* step 2, render
GenRender(c, assets) ==
  /\ pending[c].pc = "validated"
  /\ LET q == pending[c]
     IN IF RenderFails(q, assets) # ""
        THEN GenEnds(c, Failed(500, RenderFails(q, assets)))
        ELSE GenGoesOn(c, [q EXCEPT !.pc = "rendered"])

\* the response of request q after its ledger append
AppendResult(q, ledger) ==
  LET name == Strip(q.f.name)
      roll == Strip(q.f.roll)
      reg == Strip(q.f.reg)
  IN IF ~ledger THEN Failed(500, "OperationalError")
     ELSE [status |-> 200, detail |-> "OK", name |-> <<>>,
           artifact |->
             [lines |-> DrawnLines(name, roll, reg, q.stream, q.semester, q.subject),
              mimetype |-> IF q.f.as_pdf THEN "application/pdf" ELSE "image/png",
              download_name |->
                <<name, Replace(q.subject.name, " ", "-"), "FrontPageCover",
                  IF q.f.as_pdf THEN "pdf" ELSE "png">>],
           subjects |-> subjects, offerings |-> offerings,
           logs |-> logs \cup
             {LogEntry(logs, name, roll, reg, q.stream, q.semester, q.subject)}]

\* steps 3 and 4, append to the ledger and return the artifact
GenAppend(c, ledger) ==
  /\ pending[c].pc = "rendered"
  /\ GenEnds(c, AppendResult(pending[c], ledger))

\* --------------------------------------------------------------- admin_logs
MAX_LOG_RETURN == 200

\* the limit parameter of GET /admin/logs: absent, not a number, or a number
LogLimits ==
  { None, NotAnInt } \cup
  { IntVal(n) : n \in { -1, 0, 1, 2, MaxLogs, MaxLogs + 1,
                        MAX_LOG_RETURN, MAX_LOG_RETURN + 1 } }

\* a limit that is passed on as it came
ClampNone(limit) == limit

\* max(1, min(MAX_LOG_RETURN, limit))
ClampLimit(limit) ==
  LET low == IF MAX_LOG_RETURN < limit THEN MAX_LOG_RETURN ELSE limit
  IN IF 1 > low THEN 1 ELSE low

\* order_by(GenerationLog.created_at.desc())
RECURSIVE NewestFirst(_)
NewestFirst(lg) ==
  IF lg = {} THEN <<>>
  ELSE LET top == CHOOSE l \in lg : \A m \in lg : m.created_at <= l.created_at
       IN <<top>> \o NewestFirst(lg \ {top})

\* read_frontpage_logs(limit): the rows as the reply lists them
read_frontpage_logs(limit) ==
  LET all == NewestFirst(logs)
      n == IF limit < Len(all) THEN limit ELSE Len(all)
  IN [i \in 1..n |->
        [timestamp |-> all[i].created_at, name |-> all[i].student_name,
         roll |-> all[i].roll, reg |-> all[i].registration,
         subject |-> all[i].subject_name, stream |-> all[i].stream_label,
         semester |-> all[i].semester_label, code |-> all[i].subject_code]]

\* GET /admin/logs?limit=raw
AdminLogsResult(raw) ==
  IF raw.kind = "str"
  THEN [status |-> 400, detail |-> "limit must be an integer", shown |-> <<>>]
  ELSE [status |-> 200, detail |-> "logs",
        shown |-> read_frontpage_logs(ClampLimit(IF raw = None THEN 50 ELSE raw.val))]

\* the read is answered; `shown` keeps the rows of the reply
AdminLogs(raw) ==
  /\ last' = [method |-> "LOGS", status |-> AdminLogsResult(raw).status,
              detail |-> AdminLogsResult(raw).detail, name |-> <<>>,
              shown |-> AdminLogsResult(raw).shown]
  /\ UNCHANGED <<catalog, logs, pending>>

\* ------------------------------------------- admin_subjects POST, in steps
\* Two POST requests served at the same time, each in its own session. A
\* session's INSERT/UPDATE takes the database's write lock until its commit
\* and is invisible to the other session until then; its SELECTs take none.

\* the client whose session holds the write lock
Writers ==
  { c \in Clients : pending[c].pc \in {"flushed", "deleting"} /\ pending[c].wrote }

\* step 1: parse the payload and look the subject up by name
PostLookup(c, p) ==
  /\ pending[c] = Idle
  /\ IF Rejected("POST", p.name, p.semester_id) # ""
     THEN Respond("POST", PostResult(p, None)) /\ UNCHANGED pending
     ELSE /\ \E found \in First(SubjectsNamed(subjects, Strip(p.name))) :
               pending' = [pending EXCEPT ![c] =
                             [pc |-> "looked", p |-> p, found |-> found]]
          /\ UNCHANGED <<catalog, logs, last>>

\* step 2: write the subject (the flush before the offering lookup) and look
\* the offering up
PostFlush(c) ==
  /\ pending[c].pc = "looked"
  /\ LET p == pending[c].p
         u == UpsertSubject(subjects, pending[c].found, Strip(p.name), CodeOf(p.code))
         wrote == u.subs # subjects
     IN IF ~u.ok
        THEN /\ Respond("POST", Refused(500, "IntegrityError", Strip(p.name)))
             /\ pending' = [pending EXCEPT ![c] = Idle]
        ELSE /\ wrote => Writers = {}
             /\ pending' = [pending EXCEPT ![c] =
                              [pc |-> "flushed", p |-> p, wrote |-> wrote,
                               subs |-> u.subs, sid |-> u.sid,
                               ex |-> First(OfferingsFor(offerings, u.sid,
                                                         p.semester_id.val))]]
             /\ UNCHANGED <<catalog, logs, last>>

\* step 3: insert the offering the lookup did not find, and commit
PostCommit(c) ==
  /\ pending[c].pc = "flushed"
  /\ Writers \subseteq {c}
  /\ LET q == pending[c]
         subs == IF q.wrote THEN q.subs ELSE subjects
     IN \E ex \in q.ex :
          LET e == IF ex # None
                   THEN [offs |-> offerings, oid |-> ex.id]
                   ELSE [offs |-> offerings \cup
                                    {[id |-> NextId(offerings), subject_id |-> q.sid,
                                      semester_id |-> q.p.semester_id.val]},
                         oid |-> NextId(offerings)]
          IN IF UniqueOk(subs, e.offs)
             THEN Respond("POST", Result(201, "Subject saved", Strip(q.p.name),
                                         e.oid, subs, e.offs, logs))
             ELSE Respond("POST", Refused(500, "IntegrityError", Strip(q.p.name)))
  /\ pending' = [pending EXCEPT ![c] = Idle]

\* ----------------------------------------- admin_subjects DELETE, in steps
\* A DELETE request next to the requests of the other client. Its flush
\* issues the DELETE of the offering and takes the write lock; the subject's
\* offerings are loaded after that, on first use.

\* step 1: parse the payload, load the offering and its subject
DeleteLookup(c, p) ==
  /\ pending[c] = Idle
  /\ LET oid == ValOf(p.offering_id)
         hit == { o \in offerings : o.id = oid }
         why == Rejected("DELETE", p.name, p.semester_id)
     IN IF why # "" \/ ~Truthy(p.offering_id) \/ hit = {}
        THEN Respond("DELETE", DeleteResult(p)) /\ UNCHANGED pending
        ELSE /\ pending' = [pending EXCEPT ![c] =
                  [pc |-> "del_looked", off |-> CHOOSE o \in hit : TRUE,
                   subject |-> CHOOSE s \in RowById(subjects,
                                 (CHOOSE o \in hit : TRUE).subject_id) : TRUE,
                   seen |-> offerings]]
             /\ UNCHANGED <<catalog, logs, last>>

\* subject.offerings as a collection loaded together with the subject
SubjectOfferingsEager(q, offs) ==
  { o \in q.seen : o.subject_id = q.off.subject_id /\ o.id # q.off.id }

\* subject.offerings, loaded from the table after the flush
SubjectOfferings(q, offs) ==
  { o \in offs : o.subject_id = q.off.subject_id /\ o.id # q.off.id }

\* step 2: delete the offering, flush, and look at subject.offerings
DeleteFlush(c) ==
  /\ pending[c].pc = "del_looked"
  /\ Writers = {}
  /\ LET q == pending[c]
     IN IF q.subject = None
        THEN /\ Respond("DELETE", Refused(500, "AttributeError", <<>>))
             /\ pending' = [pending EXCEPT ![c] = Idle]
        ELSE /\ pending' = [pending EXCEPT ![c] =
                  [pc |-> "deleting", wrote |-> TRUE, off |-> q.off,
                   orphaned |-> SubjectOfferings(q, offerings) = {}]]
             /\ UNCHANGED <<catalog, logs, last>>

\* step 3: delete the subject that is left without offerings, and commit
DeleteCommit(c) ==
  /\ pending[c].pc = "deleting"
  /\ LET q == pending[c]
     IN IF q.orphaned
        THEN Respond("DELETE",
               Result(200, "Subject removed", <<>>, 0,
                      { s \in subjects : s.id # q.off.subject_id },
                      offerings \ {q.off},
                      ForgetSubject(logs, q.off.subject_id)))
        ELSE Respond("DELETE",
               Result(200, "Subject removed", <<>>, 0,
                      subjects, offerings \ {q.off}, logs))
  /\ pending' = [pending EXCEPT ![c] = Idle]

\* ------------------------------------------------------------ specification
Post == \E p \in PostPayloads : AdminSubjectsPost(p)

Put == \E p \in PutPayloads : AdminSubjectsPut(p)

Delete == \E p \in DeletePayloads : AdminSubjectsDelete(p)

\* the admin subject requests, one at a time
Next == Post \/ Put \/ Delete

Spec == Init /\ [][Next]_vars

Generate == \E f \in GenerateForms, env \in Environments : GenerateFrontpage(f, env)

\* the subjects the catalog is filled with before and between generations
SeedPayloads ==
  [name : { <<"d">>, <<"o"," ","s">> }, code : { <<"C"," ">> },
   semester_id : { IntVal(1), IntVal(MaxSemester + 1) }, offering_id : {None}]

Seed == \E p \in SeedPayloads : AdminSubjectsPost(p)

\* generate requests among subject additions and removals, one at a time
GenNext == Seed \/ Delete \/ Generate

GenSpec == Init /\ [][GenNext]_vars

\* the payloads of the POST requests that are served at the same time
ConcPayloads ==
  [name : { <<"d">>, <<"D">> }, code : GoodCodes,
   semester_id : { IntVal(1), IntVal(2) }, offering_id : {None}]

Lookup == \E c \in Clients, p \in ConcPayloads : PostLookup(c, p)

Flush == \E c \in Clients : PostFlush(c)

Commit == \E c \in Clients : PostCommit(c)

\* POST requests of two clients, their steps interleaved
ConcNext == Lookup \/ Flush \/ Commit

ConcSpec == Init /\ [][ConcNext]_vars

\* the forms of the generate requests that are served in steps
StepForms ==
  [name : { <<"A">> }, roll : { <<"7">> }, reg : { <<"R">> },
   semester_id : { IntVal(1), IntVal(MaxSemester + 1) },
   stream_id : { IntVal(0), IntVal(1) },
   subject_id : { IntVal(1) },
   as_pdf : {FALSE}]

GenStepValidate == \E c \in Clients, f \in StepForms : GenValidate(c, f)

GenStepRender == \E c \in Clients, assets \in BOOLEAN : GenRender(c, assets)

GenStepAppend == \E c \in Clients, ledger \in BOOLEAN : GenAppend(c, ledger)

\* the catalog edits that come in between the steps: a subject is added,
\* an offering is removed, the stream the forms name is removed
StepSeedPayloads ==
  [name : { <<"d">> }, code : { <<"C">> },
   semester_id : { IntVal(1), IntVal(MaxSemester + 1) }, offering_id : {None}]

StepSeed == \E p \in StepSeedPayloads : AdminSubjectsPost(p)

StepStreamDeletes ==
  { p \in StreamDeletePayloads : p.id \in { None, IntVal(1) } }

StepRemoveStream == \E p \in StepStreamDeletes : AdminStreamsDelete(p)

\* generate requests of two clients in steps, with catalog edits in between
StepNext ==
  \/ GenStepValidate \/ GenStepRender \/ GenStepAppend
  \/ StepSeed \/ Delete \/ StepRemoveStream

StepSpec == Init /\ [][StepNext]_vars

ReadLogs == \E raw \in LogLimits : AdminLogs(raw)

\* generate requests and reads of the ledger, one at a time
LogsNext == Seed \/ Generate \/ ReadLogs

LogsSpec == Init /\ [][LogsNext]_vars

CreateStream == \E p \in StreamPayloads : AdminStreamsPost(p)

RemoveStream == \E p \in StreamDeletePayloads : AdminStreamsDelete(p)

\* the admin stream requests, one at a time
StreamNext == CreateStream \/ RemoveStream

StreamSpec == Init /\ [][StreamNext]_vars

\* the payloads of the admin subject requests that are served at the same time
MixPostPayloads ==
  [name : { <<"d">> }, code : GoodCodes,
   semester_id : { IntVal(1), IntVal(2) }, offering_id : {None}]

MixPutPayloads ==
  [name : { <<"d">> }, code : { <<"C"," ">> },
   semester_id : { IntVal(1), IntVal(2) }, offering_id : GoodOfferingIds]

MixDeletePayloads ==
  [name : {<<>>}, code : {<<>>}, semester_id : {None},
   offering_id : GoodOfferingIds \cup {None}]

MixLookup == \E c \in Clients, p \in MixPostPayloads : PostLookup(c, p)

MixDeleteLookup == \E c \in Clients, p \in MixDeletePayloads : DeleteLookup(c, p)

MixDeleteFlush == \E c \in Clients : DeleteFlush(c)

MixDeleteCommit == \E c \in Clients : DeleteCommit(c)

\* a PUT, served when no other request holds the write lock
MixPut == Writers = {} /\ \E p \in MixPutPayloads : AdminSubjectsPut(p)

\* POST and DELETE requests of two clients in steps, and PUT requests
MixNext ==
  \/ MixLookup \/ Flush \/ Commit
  \/ MixDeleteLookup \/ MixDeleteFlush \/ MixDeleteCommit
  \/ MixPut

MixSpec == Init /\ [][MixNext]_vars

\* requests of every kind, the refused ones among them
FramePostPayloads ==
  [name : { <<"d">> }, code : {<<>>},
   semester_id : { IntVal(1), IntVal(MaxSemester + 1) }, offering_id : {None}]
    \cup OddPayloads

FramePutPayloads ==
  [name : { <<"d">> }, code : {<<>>}, semester_id : { IntVal(2) },
   offering_id : GoodOfferingIds] \cup OddPayloads

FrameStreamPayloads ==
  [label : { <<" ">>, <<"a"," ","b">> }, name : {<<>>},
   short_code : {<<>>}, id : {None}]

\* no id, the id of the first stream created after the defaults, an id that
\* no stream has
FrameStreamDeletes ==
  [label : {<<>>}, name : {<<>>}, short_code : {<<>>},
   id : { None, IntVal(Cardinality(DefaultStreams) + 1), IntVal(MaxStreamId + 1) }]

FrameForms ==
  [name : { <<"A">> }, roll : { <<"7">> }, reg : { <<"R">> },
   semester_id : { IntVal(1), NotAnInt },
   stream_id : { IntVal(1) },
   subject_id : { IntVal(1) },
   as_pdf : {TRUE}]

FrameGenerate ==
  \E f \in FrameForms, env \in Environments : GenerateFrontpage(f, env)

FramePost == \E p \in FramePostPayloads : AdminSubjectsPost(p)

FramePut == \E p \in FramePutPayloads : AdminSubjectsPut(p)

FrameCreateStream == \E p \in FrameStreamPayloads : AdminStreamsPost(p)

FrameRemoveStream == \E p \in FrameStreamDeletes : AdminStreamsDelete(p)

\* generate requests and admin requests, one at a time
FrameNext ==
  \/ FramePost \/ FramePut \/ Delete \/ FrameGenerate
  \/ FrameCreateStream \/ FrameRemoveStream

FrameSpec == Init /\ [][FrameNext]_vars

\* ------------------------------------------------------------------ claims
\* the offering a request names by offering_id
OfferingOf(p) == CHOOSE o \in offerings : o.id = ValOf(p.offering_id)

\* the request of payload p reaches the handler's lookup of offering_id,
\* and the lookup finds the offering
NamesAnOffering(method, p) ==
  /\ Rejected(method, p.name, p.semester_id) = ""
  /\ \E o \in offerings : o.id = ValOf(p.offering_id)

\* C1: after any sequence of admin subject requests no two offerings share
\* a (subject_id, semester_id) pair; a PUT onto a taken pair changes nothing.
C1_OfferingPairUnique ==
  \A a, b \in offerings :
    (a.subject_id = b.subject_id /\ a.semester_id = b.semester_id) => a.id = b.id

\* a PUT has just been refused by uq_subject_semester
C1_Witness ==
  /\ last.method = "PUT" /\ last.status = 500 /\ last.detail = "IntegrityError"
  /\ \E a, b \in offerings : a.id # b.id /\ a.subject_id = b.subject_id

C3_ConcurrentAddsStayUnique ==
  (\A c \in Clients : pending[c] = Idle) =>
    /\ \A a, b \in subjects : Lower(a.name) = Lower(b.name) => a.id = b.id
    /\ \A a, b \in offerings :
         (a.subject_id = b.subject_id /\ a.semester_id = b.semester_id)
           => a.id = b.id

\* C4: every offering references an existing subject and an existing
\* semester.
C4_OfferingsReferToLiveRows ==
  \A o \in offerings :
    /\ \E s \in subjects : s.id = o.subject_id
    /\ \E m \in semesters : m.id = o.semester_id

\* C5: a DELETE of a subject's only offering deletes the offering and the
\* subject; a DELETE of one of several offerings removes that offering alone.
C5_DeleteCascade ==
  \A p \in DeletePayloads :
    NamesAnOffering("DELETE", p) =>
      LET off == OfferingOf(p)
          mine == { o \in offerings : o.subject_id = off.subject_id }
          r == DeleteResult(p)
      IN /\ r.status = 200
         /\ r.offerings = offerings \ {off}
         /\ IF mine = {off}
            THEN r.subjects = { s \in subjects : s.id # off.subject_id }
            ELSE r.subjects = subjects

\* a DELETE has removed the first of a subject's two offerings and the
\* subject is still there
C5_Witness ==
  /\ last.method = "DELETE" /\ last.status = 200
  /\ Cardinality(offerings) = 1
  /\ \A o \in offerings : o.id = 2 /\ \E s \in subjects : s.id = o.subject_id

C7_OnlyTargetSemesterLeft ==
  \A p \in PutPayloads :
    NamesAnOffering("PUT", p) =>
      LET r == PutResult(p)
      IN r.status = 200 =>
           { o.semester_id : o \in { x \in r.offerings :
                                       x.subject_id = OfferingOf(p).subject_id } }
             = { ValOf(p.semester_id) }

\* C7 amended: a successful PUT moves the offering it names to semester T
\* and leaves every other offering, those of the same subject included, as
\* it was.
C7_OnlyNamedOfferingMoves ==
  \A p \in PutPayloads :
    NamesAnOffering("PUT", p) =>
      LET off == OfferingOf(p)
          r == PutResult(p)
      IN r.status = 200 =>
           r.offerings = (offerings \ {off})
                           \cup {[off EXCEPT !.semester_id = ValOf(p.semester_id)]}

\* a PUT succeeded on a subject that is offered in two semesters
C7_Witness ==
  /\ last.method = "PUT" /\ last.status = 200
  /\ \E s \in subjects :
       /\ s.name = last.name
       /\ Cardinality({ o.semester_id : o \in { x \in offerings :
                                                  x.subject_id = s.id } }) = 2

\* the subject whose name equals the payload's ignoring case
Stored(p) == CHOOSE s \in subjects : Lower(s.name) = Lower(Strip(p.name))

\* a POST that goes through and names a subject that is stored in another
\* letter case
Recased(p) ==
  /\ Rejected("POST", p.name, p.semester_id) = ""
  /\ \E s \in subjects : /\ Lower(s.name) = Lower(Strip(p.name))
                         /\ s.name # Strip(p.name)

C9_InvalidSelectionLogsNothing ==
  \A f \in GenerateForms, env \in Environments :
    ( /\ f.semester_id.kind = "int"
      /\ \/ ~\E o \in offerings : /\ o.semester_id = f.semester_id.val
                                  /\ o.subject_id = f.subject_id.val
         \/ ~\E s \in streams : s.id = f.stream_id.val )
    => LET r == GenerateResult(f, env)
       IN r.status >= 400 /\ r.artifact = None /\ r.logs = logs

\* a request for a subject not offered in the semester was refused while the
\* catalog had offerings and the ledger had a record
C9_Witness ==
  /\ last.method = "GENERATE" /\ last.status = 400
  /\ last.detail = "Invalid subject selection for semester"
  /\ offerings # {}
  /\ logs # {}

\* C10: when the ledger append fails after the artifact was rendered, the
\* request still completes and returns the artifact.
C10_ArtifactSurvivesLedgerFailure ==
  (last.method = "GENERATE" /\ last.detail = "OperationalError")
    => last.status = 200

\* a record with a new id is in the ledger after the step
Appended == \E l \in logs' : \A m \in logs : m.id # l.id

\* client c's request ends in this step with status 200 and its artifact
Returned(c) == pending[c] # Idle /\ pending'[c] = Idle /\ last'.status = 200

\* C11: within a generate request the steps come in the order validate,
\* render, append, return: a record is appended only in the step that
\* follows a successful render of a validated request, a request that fails
\* in validation or in rendering appends nothing, and the artifact is
\* returned only in the step that made the append.
C11_ValidateRenderAppendReturn ==
  [][
      /\ Appended =>
           \E c \in Clients :
             /\ pending[c].pc = "rendered"
             /\ pending[c].subject # None /\ pending[c].semester # None
             /\ pending'[c] = Idle
             /\ last'.method = "GENERATE" /\ last'.status = 200
      /\ \A c \in Clients :
           /\ Returned(c) => (pending[c].pc = "rendered" /\ Appended)
           /\ GenRender(c, FALSE) =>
                (~Appended /\ pending'[c] = Idle /\ last'.status = 500)
    ]_vars

\* a request has returned its artifact and left its record while the
\* request of the other client is between validation and rendering
C11_Witness ==
  /\ last.method = "GENERATE" /\ last.status = 200
  /\ Cardinality(logs) = 1
  /\ \E c \in Clients : pending[c].pc = "validated"

\* C12: a record of the ledger, once written, is never removed and none of
\* its fields changes, its references to subject, stream and semester
\* included, whatever request comes later.
C12_RecordsNeverChange == [][logs \subseteq logs']_vars

C14_RecordMatchesArtifactAndCatalog ==
  \A f \in GenerateForms, env \in Environments :
    LET r == GenerateResult(f, env)
    IN r.status = 200 =>
         LET new == r.logs \ logs
             rec == CHOOSE l \in new : TRUE
             stream == CHOOSE s \in streams : s.id = f.stream_id.val
             semester == CHOOSE m \in semesters : m.id = f.semester_id.val
             subject == CHOOSE s \in subjects : s.id = f.subject_id.val
             lines == r.artifact.lines
         IN /\ Cardinality(new) = 1
            /\ logs \subseteq r.logs
            /\ \E s \in streams : s.id = f.stream_id.val
            /\ \E m \in semesters : m.id = f.semester_id.val
            /\ \E s \in subjects : s.id = f.subject_id.val
            /\ rec.stream_label = stream.name /\ lines[4] = stream.name
            /\ rec.semester_label = semester.label /\ lines[5] = semester.label
            /\ rec.subject_code = subject.code /\ lines[6] = subject.code
            /\ rec.subject_name = subject.name /\ lines[7] = subject.name
            /\ Len(lines) = 7
            /\ \A l \in logs : l.created_at < rec.created_at

\* a generate request for the subject whose name holds a space succeeded
\* after an earlier one
C14_Witness ==
  /\ last.method = "GENERATE" /\ last.status = 200
  /\ Cardinality(logs) = 2
  /\ \E l \in logs : l.subject_name = <<"o"," ","s">> /\ l.id = 2

\* C15: for every integer limit the read of the recent logs returns
\* min(max(limit, 1), 200) records, or all when the ledger holds fewer;
\* they are the most recently created records, newest first.
C15_RecentLogsClampedNewestFirst ==
  \A raw \in LogLimits :
    raw.kind = "int" =>
      LET r == AdminLogsResult(raw)
          up == IF raw.val > 1 THEN raw.val ELSE 1
          k == IF up < 200 THEN up ELSE 200
          n == Len(r.shown)
      IN /\ r.status = 200
         /\ n <= k
         /\ n = (IF k < Cardinality(logs) THEN k ELSE Cardinality(logs))
         /\ \A i, j \in 1..n : i < j => r.shown[i].timestamp > r.shown[j].timestamp
         /\ \A i \in 1..n :
              \E l \in logs :
                /\ l.created_at = r.shown[i].timestamp
                /\ l.student_name = r.shown[i].name
                /\ l.subject_name = r.shown[i].subject
                /\ l.subject_code = r.shown[i].code
                /\ Cardinality({ m \in logs : m.created_at > l.created_at }) = i - 1

\* a read has returned only the newest of the two records of the ledger
C15_Witness ==
  /\ last.method = "LOGS" /\ last.status = 200
  /\ Cardinality(logs) = 2
  /\ Len(last.shown) = 1
  /\ last.shown[1].timestamp = 2

\* C16: in every reachable state the short code of each stream is the one
\* derived from its name (upper case, spaces replaced by underscores).
C16_ShortCodeDerivedFromName ==
  \A s \in streams : s.short_code = ShortCodeOf(s.name)

\* C17: after any sequence of stream create and delete requests no two
\* streams share a name and no two share a short code, also when the labels
\* of two create requests differ and derive the same short code.
C17_StreamNamesAndCodesUnique ==
  /\ \A a, b \in streams :
       (a.name = b.name \/ a.short_code = b.short_code) => a.id = b.id
  /\ \A p \in StreamPayloads :
       LET r == StreamPostResult(p)
       IN \A a, b \in r.streams :
            (a.name = b.name \/ a.short_code = b.short_code) => a.id = b.id

\* a create request was refused whose label differs from the name of a
\* stored stream and derives that stream's short code
C17_Witness ==
  /\ last.method = "STREAM_POST" /\ last.status = 500
  /\ \E s \in streams : s.name # last.name /\ s.short_code = ShortCodeOf(last.name)

C19_NoOrphanedSubject ==
  \A s \in subjects : \E o \in offerings : o.subject_id = s.id

\* a DELETE of a subject's last offering has committed while the POST of the
\* other client, which found that subject, is still on its way
C19_Witness ==
  /\ last.method = "DELETE" /\ last.status = 200
  /\ subjects = {}
  /\ \E c \in Clients : pending[c].pc = "looked" /\ pending[c].found # None

\* the tables are after the step as they were before it
Untouched == catalog' = catalog /\ logs' = logs

\* the payload lacks the subject name or the semester_id
LacksNameOrSemester(p) == Strip(p.name) = <<>> \/ ~Truthy(p.semester_id)

\* the payload's offering_id is missing or names no offering
LacksOffering(p) ==
  ~Truthy(p.offering_id) \/ ~\E o \in offerings : o.id = p.offering_id.val

\* the payload's stream id is missing or names no stream
LacksStream(p) == ~Truthy(p.id) \/ ~\E s \in streams : s.id = p.id.val

\* C20: a generate request, successful or not, leaves streams, semesters,
\* subjects and offerings as they were; an admin subject or stream request
\* that is rejected (missing name, missing or non-integer semester_id,
\* missing or unknown offering_id, missing or unknown stream id) leaves the
\* catalog and the ledger as they were.
C20_FrameEffects ==
  [][
      /\ last'.method = "GENERATE" => catalog' = catalog
      /\ ( /\ last'.method \in {"POST", "PUT", "DELETE", "STREAM_POST", "STREAM_DELETE"}
           /\ last'.status \in {400, 404} ) => Untouched
      /\ last'.method = "POST" =>
           \A p \in FramePostPayloads :
             (LacksNameOrSemester(p) /\ AdminSubjectsPost(p))
               => (last'.status = 400 /\ Untouched)
      /\ last'.method = "PUT" =>
           \A p \in FramePutPayloads :
             ((LacksNameOrSemester(p) \/ LacksOffering(p)) /\ AdminSubjectsPut(p))
               => (last'.status \in {400, 404} /\ Untouched)
      /\ last'.method = "DELETE" =>
           \A p \in DeletePayloads :
             ((p.semester_id.kind = "str" \/ LacksOffering(p)) /\ AdminSubjectsDelete(p))
               => (last'.status \in {400, 404} /\ Untouched)
      /\ last'.method = "STREAM_POST" =>
           \A p \in FrameStreamPayloads :
             (Strip(p.label) = <<>> /\ AdminStreamsPost(p))
               => (last'.status = 400 /\ Untouched)
      /\ last'.method = "STREAM_DELETE" =>
           \A p \in FrameStreamDeletes :
             (LacksStream(p) /\ AdminStreamsDelete(p))
               => (last'.status \in {400, 404} /\ Untouched)
    ]_vars

\* a PUT naming an unknown offering was refused while the catalog held a
\* subject and the ledger a record
C20_Witness ==
  /\ last.method = "PUT" /\ last.status = 404
  /\ subjects # {} /\ logs # {}

====
